---- MODULE Spec2Model ----
(***************************************************************************)
(* NamedFunc (src/src/core/named_func.cpp): a name paired with a scalar    *)
(* and a vector std::function over a Baby, and the operator algebra that   *)
(* composes them.                                                          *)
(*                                                                         *)
(* A std::function value is modelled by the closure it holds: a tuple      *)
(* whose first element names the lambda (by the branch of ApplyOp that     *)
(* built it) and whose other elements are the captured values.  Calling a  *)
(* closure is the recursive operator Call, which returns the value, the    *)
(* exception if one is thrown, and the sequence of leaf evaluators that    *)
(* were invoked, in order.                                                 *)
(***************************************************************************)
EXTENDS Integers, Sequences, FiniteSets

VARIABLES nf, nops, last

vars == <<nf, nops, last>>

\* the number of NamedFunc objects of the program, and of operations on them
NumSlots == 2
MaxOps == 2

(***************************************************************************)
(* ScalarType is double.  A double is modelled exactly as a pair <<n, d>>: *)
(*   d > 0   the rational n/d in lowest terms (<<0, 1>> is +0.0)           *)
(*   <<0, -1>>   -0.0                                                      *)
(*   <<1, 0>>, <<-1, 0>>, <<0, 0>>   +inf, -inf, NaN                       *)
(* Rounding is not modelled: the values met within the bounds are small.   *)
(***************************************************************************)
PosZero == <<0, 1>>
NegZero == <<0, -1>>
PosInf == <<1, 0>>
NegInf == <<-1, 0>>
NaN == <<0, 0>>
One == <<1, 1>>

Abs(n) == IF n < 0 THEN -n ELSE n

RECURSIVE GCD(_, _)
GCD(a, b) == IF b = 0 THEN a ELSE GCD(b, a % b)

IsNaN(x) == x = NaN
IsInf(x) == x[2] = 0 /\ x[1] # 0
IsZero(x) == x[1] = 0 /\ x[2] # 0
\* the sign bit of a double that is not NaN
SignBit(x) == x[1] < 0 \/ x = NegZero
\* the denominator of a finite double
Den(x) == Abs(x[2])
Zero(neg) == IF neg THEN NegZero ELSE PosZero
Inf(neg) == IF neg THEN NegInf ELSE PosInf

\* the finite non-zero double n/d (d # 0, n # 0), in lowest terms
Ratio(n, d) ==
  LET g == GCD(Abs(n), Abs(d))
      s == IF d < 0 THEN -1 ELSE 1
  IN  <<(s * n) \div g, (s * d) \div g>>

\* static_cast<bool>(x): every double but +0.0 and -0.0 is true, NaN included
Truthy(x) == ~IsZero(x)
\* the conversion of a bool to ScalarType
FromBool(p) == IF p THEN One ELSE PosZero

Negate(x) ==
  IF IsNaN(x) THEN NaN
  ELSE IF IsZero(x) THEN Zero(~SignBit(x))
  ELSE <<-x[1], x[2]>>

Plus(x, y) ==
  IF IsNaN(x) \/ IsNaN(y) THEN NaN
  ELSE IF IsInf(x) /\ IsInf(y) THEN (IF x = y THEN x ELSE NaN)
  ELSE IF IsInf(x) THEN x
  ELSE IF IsInf(y) THEN y
  ELSE IF IsZero(x) /\ IsZero(y) THEN Zero(SignBit(x) /\ SignBit(y))
  ELSE LET n == x[1] * Den(y) + y[1] * Den(x)
       IN  IF n = 0 THEN PosZero ELSE Ratio(n, Den(x) * Den(y))

Minus(x, y) == Plus(x, Negate(y))

Multiplies(x, y) ==
  IF IsNaN(x) \/ IsNaN(y) THEN NaN
  ELSE LET neg == SignBit(x) # SignBit(y)
       IN  IF IsInf(x) \/ IsInf(y)
           THEN (IF IsZero(x) \/ IsZero(y) THEN NaN ELSE Inf(neg))
           ELSE IF IsZero(x) \/ IsZero(y) THEN Zero(neg)
           ELSE Ratio(x[1] * y[1], x[2] * y[2])

Divides(x, y) ==
  IF IsNaN(x) \/ IsNaN(y) THEN NaN
  ELSE LET neg == SignBit(x) # SignBit(y)
       IN  IF IsInf(x) THEN (IF IsInf(y) THEN NaN ELSE Inf(neg))
           ELSE IF IsInf(y) THEN Zero(neg)
           ELSE IF IsZero(y) THEN (IF IsZero(x) THEN NaN ELSE Inf(neg))
           ELSE IF IsZero(x) THEN Zero(neg)
           ELSE Ratio(x[1] * y[2], x[2] * y[1])

\* the integer part of n/d (d > 0), rounded towards zero
Trunc(n, d) == IF n >= 0 THEN n \div d ELSE -((-n) \div d)

\* fmod(x, y): x - trunc(x/y)*y, with the sign of x
Fmod(x, y) ==
  IF IsNaN(x) \/ IsNaN(y) \/ IsInf(x) \/ IsZero(y) THEN NaN
  ELSE IF IsInf(y) \/ IsZero(x) THEN x
  ELSE LET q == Ratio(x[1] * y[2], x[2] * y[1])
           t == Trunc(q[1], q[2])
           n == x[1] * y[2] - t * y[1] * x[2]
       IN  IF n = 0 THEN Zero(SignBit(x)) ELSE Ratio(n, x[2] * y[2])

\* the order of an infinity among the finite doubles
Rank(x) == IF IsInf(x) THEN x[1] ELSE 0

Less(x, y) ==
  /\ ~IsNaN(x) /\ ~IsNaN(y)
  /\ IF IsInf(x) \/ IsInf(y) THEN Rank(x) < Rank(y)
     ELSE x[1] * Den(y) < y[1] * Den(x)

EqualTo(x, y) ==
  /\ ~IsNaN(x) /\ ~IsNaN(y)
  /\ IF IsInf(x) \/ IsInf(y) THEN x = y
     ELSE x[1] * Den(y) = y[1] * Den(x)


(***************************************************************************)
(* The functors handed to ApplyOp, by the symbol of the operator that      *)
(* hands them over.                                                        *)
(***************************************************************************)
ArithSyms == {"+", "-", "*", "/", "%"}
CompareSyms == {"==", "!=", ">", "<", ">=", "<="}
LogicalSyms == {"&&", "||"}
BinarySyms == ArithSyms \cup CompareSyms
UnarySyms == {"-", "!"}

\* op_c of the binary ApplyOp: function<ScalarType(ScalarType,ScalarType)>
BinaryFunctor(sym, x, y) ==
  CASE sym = "+" -> Plus(x, y)
    [] sym = "-" -> Minus(x, y)
    [] sym = "*" -> Multiplies(x, y)
    [] sym = "/" -> Divides(x, y)
    [] sym = "%" -> Fmod(x, y)
    [] sym = "==" -> FromBool(EqualTo(x, y))
    [] sym = "!=" -> FromBool(~EqualTo(x, y))
    [] sym = ">" -> FromBool(Less(y, x))
    [] sym = "<" -> FromBool(Less(x, y))
    [] sym = ">=" -> FromBool(Less(y, x) \/ EqualTo(x, y))
    [] sym = "<=" -> FromBool(Less(x, y) \/ EqualTo(x, y))

\* the unary functors with 0 - x for negate: +0.0 for x = +0.0
UnaryFunctorMinusFromZero(sym, x) ==
  CASE sym = "-" -> Minus(PosZero, x)
    [] sym = "!" -> FromBool(~Truthy(x))

\* op_c of the unary ApplyOp: function<ScalarType(ScalarType)>
UnaryFunctor(sym, x) ==
  CASE sym = "-" -> Negate(x)
    [] sym = "!" -> FromBool(~Truthy(x))

(***************************************************************************)
(* What the language leaves to the build: the order in which the two       *)
(* arguments of op_c(sfa(b), sfb(b)) are evaluated, the order of vec(b)    *)
(* and index(b) in vec(b).at(index(b)), and the size_t that the conversion *)
(* of a double outside the range of size_t yields (undefined behaviour).   *)
(***************************************************************************)
Dirs == {"ltr", "rtl"}
Builds == [arg : Dirs, at : Dirs, wild : {"zero", "huge"}]

(***************************************************************************)
(* Closures.  Empty is a default-constructed std::function.                *)
(***************************************************************************)
Empty == <<"empty">>
IsValid(f) == f # Empty

Returned(v, tr) == [exc |-> "none", val |-> v, trace |-> tr]
Thrown(e, tr) == [exc |-> e, val |-> <<>>, trace |-> tr]
Ok(r) == r.exc = "none"

\* the conversion of the double index to the size_t parameter of at(): the
\* integer part; a double with no integer part in the range of size_t
\* (negative, infinite, NaN) converts to what the build yields, here either
\* 0 or a size_t beyond the size of every vector
ToSizeT(x, bd) ==
  LET t == IF IsNaN(x) \/ IsInf(x) THEN -1 ELSE Trunc(x[1], Den(x))
  IN  IF t < 0 THEN [huge |-> bd.wild = "huge", n |-> 0]
      ELSE [huge |-> FALSE, n |-> t]

\* the "&&" loop without "evaluated = true": sfb is called for every true
\* element
RECURSIVE AndLoopPerElement(_, _, _, _, _, _, _)
AndLoopPerElement(va, rb, i, evaluated, sb, vo, tr) ==
  IF i > Len(va) THEN Returned(vo, tr)
  ELSE IF ~evaluated /\ Truthy(va[i])
       THEN IF Ok(rb)
            THEN AndLoopPerElement(va, rb, i + 1, FALSE, rb.val,
                         Append(vo, FromBool(Truthy(va[i]) /\ Truthy(rb.val))),
                         tr \o rb.trace)
            ELSE Thrown(rb.exc, tr \o rb.trace)
       ELSE AndLoopPerElement(va, rb, i + 1, evaluated, sb,
                    Append(vo, FromBool(Truthy(va[i]) /\ Truthy(sb))), tr)

\* the loop of the vector/scalar "&&" lambda from element i on; rb is the
\* outcome of sfb(b), looked at only where the loop calls sfb
RECURSIVE AndLoop(_, _, _, _, _, _, _)
AndLoop(va, rb, i, evaluated, sb, vo, tr) ==
  IF i > Len(va) THEN Returned(vo, tr)
  ELSE IF ~evaluated /\ Truthy(va[i])
       THEN IF Ok(rb)
            THEN AndLoop(va, rb, i + 1, TRUE, rb.val,
                         Append(vo, FromBool(Truthy(va[i]) /\ Truthy(rb.val))),
                         tr \o rb.trace)
            ELSE Thrown(rb.exc, tr \o rb.trace)
       ELSE AndLoop(va, rb, i + 1, evaluated, sb,
                    Append(vo, FromBool(Truthy(va[i]) /\ Truthy(sb))), tr)

\* the "||" loop with the test of the "&&" loop: sfb is called at the first
\* true element, and the false elements before it are combined with 0
RECURSIVE OrLoopTestsLikeAnd(_, _, _, _, _, _, _)
OrLoopTestsLikeAnd(va, rb, i, evaluated, sb, vo, tr) ==
  IF i > Len(va) THEN Returned(vo, tr)
  ELSE IF ~evaluated /\ Truthy(va[i])
       THEN IF Ok(rb)
            THEN OrLoopTestsLikeAnd(va, rb, i + 1, TRUE, rb.val,
                        Append(vo, FromBool(Truthy(va[i]) \/ Truthy(rb.val))),
                        tr \o rb.trace)
            ELSE Thrown(rb.exc, tr \o rb.trace)
       ELSE OrLoopTestsLikeAnd(va, rb, i + 1, evaluated, sb,
                   Append(vo, FromBool(Truthy(va[i]) \/ Truthy(sb))), tr)

\* the loop of the vector/scalar "||" lambda
RECURSIVE OrLoop(_, _, _, _, _, _, _)
OrLoop(va, rb, i, evaluated, sb, vo, tr) ==
  IF i > Len(va) THEN Returned(vo, tr)
  ELSE IF ~(evaluated \/ Truthy(va[i]))
       THEN IF Ok(rb)
            THEN OrLoop(va, rb, i + 1, TRUE, rb.val,
                        Append(vo, FromBool(Truthy(va[i]) \/ Truthy(rb.val))),
                        tr \o rb.trace)
            ELSE Thrown(rb.exc, tr \o rb.trace)
       ELSE OrLoop(va, rb, i + 1, evaluated, sb,
                   Append(vo, FromBool(Truthy(va[i]) \/ Truthy(sb))), tr)

\* two calls one after the other: the outcome of the second, with the
\* first's trace before it, unless the first throws
Then(r1, r2) ==
  IF Ok(r1) THEN [r2 EXCEPT !.trace = r1.trace \o r2.trace] ELSE r1

(***************************************************************************)
(* Calling the closure f on the Baby b in the build bd.                    *)
(***************************************************************************)
RECURSIVE Call(_, _, _)
Call(f, b, bd) ==
  LET tag == f[1] IN
  CASE tag = "empty" -> Thrown("bad_function_call", <<>>)
    [] tag = "leaf" -> Returned(b[f[2]], <<f[2]>>)
    [] tag = "const" -> Returned(f[2], <<>>)
    [] tag = "un_s" ->
         LET r == Call(f[3], b, bd)
         IN  IF Ok(r) THEN Returned(UnaryFunctor(f[2], r.val), r.trace) ELSE r
    [] tag = "un_v" ->
         LET r == Call(f[3], b, bd)
         IN  IF Ok(r)
             THEN Returned([i \in 1..Len(r.val) |-> UnaryFunctor(f[2], r.val[i])],
                           r.trace)
             ELSE r
    [] tag = "ss" ->
         LET ra == Call(f[3], b, bd)
             rb == Call(f[4], b, bd)
             both == IF bd.arg = "ltr" THEN Then(ra, rb) ELSE Then(rb, ra)
         IN  IF Ok(both)
             THEN Returned(BinaryFunctor(f[2], ra.val, rb.val), both.trace)
             ELSE both
    [] tag = "sv" ->
         LET ra == Call(f[3], b, bd)
             rb == Call(f[4], b, bd)
             both == Then(ra, rb)
         IN  IF Ok(both)
             THEN Returned([i \in 1..Len(rb.val) |->
                              BinaryFunctor(f[2], ra.val, rb.val[i])], both.trace)
             ELSE both
    [] tag = "vs" ->
         LET ra == Call(f[3], b, bd)
             rb == Call(f[4], b, bd)
             both == Then(ra, rb)
         IN  IF Ok(both)
             THEN Returned([i \in 1..Len(ra.val) |->
                              BinaryFunctor(f[2], ra.val[i], rb.val)], both.trace)
             ELSE both
    [] tag = "vv" ->
         LET ra == Call(f[3], b, bd)
             rb == Call(f[4], b, bd)
             both == Then(ra, rb)
         IN  IF Ok(both)
             THEN Returned([i \in 1..(IF Len(ra.val) > Len(rb.val)
                                      THEN Len(rb.val) ELSE Len(ra.val)) |->
                              BinaryFunctor(f[2], ra.val[i], rb.val[i])], both.trace)
             ELSE both
    [] tag = "and_ss" ->
         LET ra == Call(f[2], b, bd)
             rb == Call(f[3], b, bd)
         IN  IF ~Ok(ra) THEN ra
             ELSE IF ~Truthy(ra.val) THEN Returned(FromBool(FALSE), ra.trace)
             ELSE IF Ok(rb) THEN Returned(FromBool(Truthy(rb.val)), ra.trace \o rb.trace)
             ELSE Then(ra, rb)
    [] tag = "and_sv" ->
         LET ra == Call(f[2], b, bd)
             rb == Call(f[3], b, bd)
             both == Then(ra, rb)
         IN  IF ~Ok(both) THEN both
             ELSE IF ~Truthy(ra.val)
                  THEN Returned([i \in 1..Len(rb.val) |-> FromBool(FALSE)], both.trace)
                  ELSE both
    [] tag = "and_vs" ->
         LET ra == Call(f[2], b, bd)
             rb == Call(f[3], b, bd)
         IN  IF Ok(ra) THEN AndLoop(ra.val, rb, 1, FALSE, PosZero, <<>>, ra.trace)
             ELSE ra
    [] tag = "and_vv" ->
         LET ra == Call(f[2], b, bd)
             rb == Call(f[3], b, bd)
             both == Then(ra, rb)
         IN  IF Ok(both)
             THEN Returned([i \in 1..(IF Len(ra.val) > Len(rb.val)
                                      THEN Len(rb.val) ELSE Len(ra.val)) |->
                              FromBool(Truthy(ra.val[i]) /\ Truthy(rb.val[i]))],
                           both.trace)
             ELSE both
    [] tag = "or_ss" ->
         LET ra == Call(f[2], b, bd)
             rb == Call(f[3], b, bd)
         IN  IF ~Ok(ra) THEN ra
             ELSE IF Truthy(ra.val) THEN Returned(FromBool(TRUE), ra.trace)
             ELSE IF Ok(rb) THEN Returned(FromBool(Truthy(rb.val)), ra.trace \o rb.trace)
             ELSE Then(ra, rb)
    [] tag = "or_sv" ->
         LET ra == Call(f[2], b, bd)
             rb == Call(f[3], b, bd)
             both == Then(ra, rb)
         IN  IF ~Ok(both) THEN both
             ELSE IF Truthy(ra.val)
                  THEN Returned([i \in 1..Len(rb.val) |-> FromBool(TRUE)], both.trace)
                  ELSE both
    [] tag = "or_vs" ->
         LET ra == Call(f[2], b, bd)
             rb == Call(f[3], b, bd)
         IN  IF Ok(ra) THEN OrLoop(ra.val, rb, 1, FALSE, PosZero, <<>>, ra.trace)
             ELSE ra
    [] tag = "or_vv" ->
         LET ra == Call(f[2], b, bd)
             rb == Call(f[3], b, bd)
             both == Then(ra, rb)
         IN  IF Ok(both)
             THEN Returned([i \in 1..(IF Len(ra.val) > Len(rb.val)
                                      THEN Len(rb.val) ELSE Len(ra.val)) |->
                              FromBool(Truthy(ra.val[i]) \/ Truthy(rb.val[i]))],
                           both.trace)
             ELSE both
    [] tag = "at" ->
         LET rv == Call(f[2], b, bd)
             ri == Call(f[3], b, bd)
             both == IF bd.at = "ltr" THEN Then(rv, ri) ELSE Then(ri, rv)
             ix == ToSizeT(ri.val, bd)
         IN  IF ~Ok(both) THEN both
             ELSE IF ix.huge \/ ix.n >= Len(rv.val)
                  THEN Thrown("out_of_range", both.trace)
                  ELSE Returned(rv.val[ix.n + 1], both.trace)


(***************************************************************************)
(* Names are strings, modelled as sequences of one-character strings.      *)
(***************************************************************************)
SymChars(sym) ==
  CASE sym = "==" -> <<"=", "=">>
    [] sym = "!=" -> <<"!", "=">>
    [] sym = ">=" -> <<">", "=">>
    [] sym = "<=" -> <<"<", "=">>
    [] sym = "&&" -> <<"&", "&">>
    [] sym = "||" -> <<"|", "|">>
    [] OTHER -> <<sym>>

\* the decimal digits of the natural number n
RECURSIVE Digits(_)
Digits(n) ==
  LET d == <<"0", "1", "2", "3", "4", "5", "6", "7", "8", "9">>[(n % 10) + 1]
  IN  IF n < 10 THEN <<d>> ELSE Append(Digits(n \div 10), d)

\* ToString(x) of core/utilities, for the integer-valued doubles
ToString(x) ==
  IF x[1] < 0 THEN <<"-">> \o Digits(-x[1]) ELSE Digits(x[1])

\* NamedFunc::CleanName: ReplaceAll(name_, " ", "")
CleanName(name) == SelectSeq(name, LAMBDA c : c # " ")

\* NamedFunc(name, function<ScalarFunc>)
NamedFuncScalar(name, function) ==
  [name |-> CleanName(name), scalar_func_ |-> function, vector_func_ |-> Empty]

\* the vector constructor without its call of CleanName
NamedFuncVectorRawName(name, function) ==
  [name |-> name, scalar_func_ |-> Empty, vector_func_ |-> function]

\* NamedFunc(name, function<VectorFunc>)
NamedFuncVector(name, function) ==
  [name |-> CleanName(name), scalar_func_ |-> Empty, vector_func_ |-> function]

\* NamedFunc(ScalarType x)
NamedFuncConstant(x) ==
  [name |-> ToString(x), scalar_func_ |-> <<"const", x>>, vector_func_ |-> Empty]

\* the renaming that stores the text as it is given
NameAsGiven(self, name) == [self EXCEPT !.name = name]

\* NamedFunc::Name(const string &)
Name(self, name) == [self EXCEPT !.name = CleanName(name)]

\* the scalar setter without its guard: an empty function is assigned too
FunctionScalarUnguarded(self, f) ==
  [self EXCEPT !.scalar_func_ = f, !.vector_func_ = Empty]

\* NamedFunc::Function(const function<ScalarFunc> &)
FunctionScalar(self, f) ==
  IF ~IsValid(f) THEN self
  ELSE [self EXCEPT !.scalar_func_ = f, !.vector_func_ = Empty]

\* the setter without the line that invalidates the scalar function
FunctionVectorKeepsScalar(self, f) ==
  IF ~IsValid(f) THEN self ELSE [self EXCEPT !.vector_func_ = f]

\* NamedFunc::Function(const function<VectorFunc> &)
FunctionVector(self, f) ==
  IF ~IsValid(f) THEN self
  ELSE [self EXCEPT !.scalar_func_ = Empty, !.vector_func_ = f]

IsScalar(self) == IsValid(self.scalar_func_)
IsVector(self) == IsValid(self.vector_func_)

\* GetScalar that falls back on the vector function of a vector NamedFunc
GetScalarOfEitherShape(self, b, bd) ==
  IF IsValid(self.scalar_func_) THEN Call(self.scalar_func_, b, bd)
  ELSE Call(self.vector_func_, b, bd)

\* NamedFunc::GetScalar, NamedFunc::GetVector
GetScalar(self, b, bd) == Call(self.scalar_func_, b, bd)
GetVector(self, b, bd) == Call(self.vector_func_, b, bd)

\* ApplyOp(const function<ScalarFunc> &f, op)
ApplyOpScalar(f, sym) == IF ~IsValid(f) THEN f ELSE <<"un_s", sym, f>>

\* ApplyOp(const function<VectorFunc> &f, op)
ApplyOpVector(f, sym) == IF ~IsValid(f) THEN f ELSE <<"un_v", sym, f>>

\* the generic binary ApplyOp with the operands of op_c exchanged in one
\* branch: scalar/scalar, the two broadcasts, vector/vector
ApplyOpSwappedScalars(sfa, vfa, sfb, vfb, sym) ==
  IF IsValid(sfa) /\ IsValid(sfb) THEN <<<<"ss", sym, sfb, sfa>>, Empty>>
  ELSE IF IsValid(sfa) /\ IsValid(vfb) THEN <<Empty, <<"sv", sym, sfa, vfb>>>>
  ELSE IF IsValid(vfa) /\ IsValid(sfb) THEN <<Empty, <<"vs", sym, vfa, sfb>>>>
  ELSE IF IsValid(vfa) /\ IsValid(vfb) THEN <<Empty, <<"vv", sym, vfa, vfb>>>>
  ELSE <<Empty, Empty>>

ApplyOpSwappedBroadcast(sfa, vfa, sfb, vfb, sym) ==
  IF IsValid(sfa) /\ IsValid(sfb) THEN <<<<"ss", sym, sfa, sfb>>, Empty>>
  ELSE IF IsValid(sfa) /\ IsValid(vfb) THEN <<Empty, <<"vs", sym, vfb, sfa>>>>
  ELSE IF IsValid(vfa) /\ IsValid(sfb) THEN <<Empty, <<"sv", sym, sfb, vfa>>>>
  ELSE IF IsValid(vfa) /\ IsValid(vfb) THEN <<Empty, <<"vv", sym, vfa, vfb>>>>
  ELSE <<Empty, Empty>>

ApplyOpSwappedVectors(sfa, vfa, sfb, vfb, sym) ==
  IF IsValid(sfa) /\ IsValid(sfb) THEN <<<<"ss", sym, sfa, sfb>>, Empty>>
  ELSE IF IsValid(sfa) /\ IsValid(vfb) THEN <<Empty, <<"sv", sym, sfa, vfb>>>>
  ELSE IF IsValid(vfa) /\ IsValid(sfb) THEN <<Empty, <<"vs", sym, vfa, sfb>>>>
  ELSE IF IsValid(vfa) /\ IsValid(vfb) THEN <<Empty, <<"vv", sym, vfb, vfa>>>>
  ELSE <<Empty, Empty>>

\* the generic binary ApplyOp: the pair (sfo, vfo)
ApplyOp(sfa, vfa, sfb, vfb, sym) ==
  IF IsValid(sfa) /\ IsValid(sfb) THEN <<<<"ss", sym, sfa, sfb>>, Empty>>
  ELSE IF IsValid(sfa) /\ IsValid(vfb) THEN <<Empty, <<"sv", sym, sfa, vfb>>>>
  ELSE IF IsValid(vfa) /\ IsValid(sfb) THEN <<Empty, <<"vs", sym, vfa, sfb>>>>
  ELSE IF IsValid(vfa) /\ IsValid(vfb) THEN <<Empty, <<"vv", sym, vfa, vfb>>>>
  ELSE <<Empty, Empty>>

\* the "&&" ApplyOp with the scalar/vector lambda of "||"
ApplyOpAndFillsLikeOr(sfa, vfa, sfb, vfb) ==
  IF IsValid(sfa) /\ IsValid(sfb) THEN <<<<"and_ss", sfa, sfb>>, Empty>>
  ELSE IF IsValid(sfa) /\ IsValid(vfb) THEN <<Empty, <<"or_sv", sfa, vfb>>>>
  ELSE IF IsValid(vfa) /\ IsValid(sfb) THEN <<Empty, <<"and_vs", vfa, sfb>>>>
  ELSE IF IsValid(vfa) /\ IsValid(vfb) THEN <<Empty, <<"and_vv", vfa, vfb>>>>
  ELSE <<Empty, Empty>>

\* the "&&" ApplyOp whose scalar/scalar lambda is sfb(b)&&sfa(b)
ApplyOpAndSwappedScalars(sfa, vfa, sfb, vfb) ==
  IF IsValid(sfa) /\ IsValid(sfb) THEN <<<<"and_ss", sfb, sfa>>, Empty>>
  ELSE IF IsValid(sfa) /\ IsValid(vfb) THEN <<Empty, <<"and_sv", sfa, vfb>>>>
  ELSE IF IsValid(vfa) /\ IsValid(sfb) THEN <<Empty, <<"and_vs", vfa, sfb>>>>
  ELSE IF IsValid(vfa) /\ IsValid(vfb) THEN <<Empty, <<"and_vv", vfa, vfb>>>>
  ELSE <<Empty, Empty>>

\* ApplyOp specialised for logical_and<ScalarType>
ApplyOpAnd(sfa, vfa, sfb, vfb) ==
  IF IsValid(sfa) /\ IsValid(sfb) THEN <<<<"and_ss", sfa, sfb>>, Empty>>
  ELSE IF IsValid(sfa) /\ IsValid(vfb) THEN <<Empty, <<"and_sv", sfa, vfb>>>>
  ELSE IF IsValid(vfa) /\ IsValid(sfb) THEN <<Empty, <<"and_vs", vfa, sfb>>>>
  ELSE IF IsValid(vfa) /\ IsValid(vfb) THEN <<Empty, <<"and_vv", vfa, vfb>>>>
  ELSE <<Empty, Empty>>

\* ApplyOp specialised for logical_or<ScalarType>
ApplyOpOr(sfa, vfa, sfb, vfb) ==
  IF IsValid(sfa) /\ IsValid(sfb) THEN <<<<"or_ss", sfa, sfb>>, Empty>>
  ELSE IF IsValid(sfa) /\ IsValid(vfb) THEN <<Empty, <<"or_sv", sfa, vfb>>>>
  ELSE IF IsValid(vfa) /\ IsValid(sfb) THEN <<Empty, <<"or_vs", vfa, sfb>>>>
  ELSE IF IsValid(vfa) /\ IsValid(vfb) THEN <<Empty, <<"or_vv", vfa, vfb>>>>
  ELSE <<Empty, Empty>>

\* "(" + f + ")" + symbol + "(" + g + ")"
BinaryName(f, sym, g) ==
  <<"(">> \o f \o <<")">> \o SymChars(sym) \o <<"(">> \o g \o <<")">>

\* symbol + "(" + f + ")"
UnaryName(sym, f) == SymChars(sym) \o <<"(">> \o f \o <<")">>

\* the compound assignment that overwrites scalar_func_ alone
CompoundAssignKeepsVector(self, func, sym) ==
  LET fp == ApplyOp(self.scalar_func_, self.vector_func_,
                    func.scalar_func_, func.vector_func_, sym)
  IN  [name |-> BinaryName(self.name, sym, func.name),
       scalar_func_ |-> fp[1], vector_func_ |-> self.vector_func_]

\* NamedFunc::operator +=, -=, *=, /=, %= (sym without the "=")
CompoundAssign(self, func, sym) ==
  LET fp == ApplyOp(self.scalar_func_, self.vector_func_,
                    func.scalar_func_, func.vector_func_, sym)
  IN  [name |-> BinaryName(self.name, sym, func.name),
       scalar_func_ |-> fp[1], vector_func_ |-> fp[2]]

\* operator+, operator-, operator*, operator/, operator%: return f op= g
OperatorArith(f, g, sym) == CompoundAssign(f, g, sym)

\* operator==, !=, >, <, >=, <=
OperatorCompare(f, g, sym) ==
  LET f1 == Name(f, BinaryName(f.name, sym, g.name))
      fp == ApplyOp(f1.scalar_func_, f1.vector_func_,
                    g.scalar_func_, g.vector_func_, sym)
  IN  FunctionVector(FunctionScalar(f1, fp[1]), fp[2])

\* operator&&
OperatorAnd(f, g) ==
  LET f1 == Name(f, BinaryName(f.name, "&&", g.name))
      fp == ApplyOpAnd(f1.scalar_func_, f1.vector_func_,
                       g.scalar_func_, g.vector_func_)
  IN  FunctionVector(FunctionScalar(f1, fp[1]), fp[2])

\* operator||
OperatorOr(f, g) ==
  LET f1 == Name(f, BinaryName(f.name, "||", g.name))
      fp == ApplyOpOr(f1.scalar_func_, f1.vector_func_,
                      g.scalar_func_, g.vector_func_)
  IN  FunctionVector(FunctionScalar(f1, fp[1]), fp[2])

\* unary operator+
OperatorPlus(f) == Name(f, UnaryName("+", f.name))

\* the unary operator that writes the name without the parentheses
OperatorUnaryBareName(f, sym) ==
  LET f1 == Name(f, SymChars(sym) \o f.name)
      f2 == FunctionScalar(f1, ApplyOpScalar(f1.scalar_func_, sym))
  IN  FunctionVector(f2, ApplyOpVector(f2.vector_func_, sym))

\* unary operator- and operator! (sym "-" or "!")
OperatorUnary(f, sym) ==
  LET f1 == Name(f, UnaryName(sym, f.name))
      f2 == FunctionScalar(f1, ApplyOpScalar(f1.scalar_func_, sym))
  IN  FunctionVector(f2, ApplyOpVector(f2.vector_func_, sym))

\* operator[] without its second guard
IndexErrorReceiverOnly(self, func) == IsScalar(self)

\* the two guards of NamedFunc::operator[]: whether ERROR is reached
IndexError(self, func) == IsScalar(self) \/ IsVector(func)

\* NamedFunc::operator[], past its guards
OperatorIndex(self, func) ==
  NamedFuncScalar(<<"(">> \o self.name \o <<")", "[">> \o func.name \o <<"]">>,
                  <<"at", self.vector_func_, func.scalar_func_>>)


(***************************************************************************)
(* The Babies the evaluators are called on, and the hand-written leaf      *)
(* evaluators: each reads one accessor of the Baby.                        *)
(***************************************************************************)
Dbl(n) == IF n = 0 THEN PosZero ELSE <<n, 1>>

Babies ==
  { [s1 |-> Dbl(0), s2 |-> Dbl(2), v1 |-> <<>>, v2 |-> <<Dbl(1), Dbl(0)>>],
    [s1 |-> Dbl(1), s2 |-> Dbl(0), v1 |-> <<Dbl(0), Dbl(3)>>,
     v2 |-> <<Dbl(2), Dbl(0)>>],
    [s1 |-> Dbl(-2), s2 |-> Dbl(1), v1 |-> <<Dbl(0), Dbl(0)>>,
     v2 |-> <<Dbl(0), Dbl(-1), Dbl(4)>>],
    [s1 |-> <<1, 2>>, s2 |-> Dbl(3), v1 |-> <<Dbl(5)>>, v2 |-> <<>>],
    [s1 |-> Dbl(0), s2 |-> Dbl(0), v1 |-> <<Dbl(2), Dbl(0), Dbl(1)>>,
     v2 |-> <<Dbl(3), Dbl(2)>>] }

ScalarLeaves == {<<"leaf", "s1">>, <<"leaf", "s2">>}
VectorLeaves == {<<"leaf", "v1">>, <<"leaf", "v2">>}
Constants == {Dbl(0), Dbl(1)}
\* the name each NamedFunc is constructed or renamed with
Names == {<<"x">>, <<"n", " ", "j">>}

Slots == 1..NumSlots

\* the last operation: its kind and symbol, the slots of its left operand,
\* right operand and result, every NamedFunc as it was before the operation,
\* and whether the operation threw
Record(kind, sym, i, j, d, pre, err) ==
  [kind |-> kind, sym |-> sym, i |-> i, j |-> j, d |-> d, pre |-> pre, err |-> err]

Init ==
  /\ nf = [d \in Slots |->
             IF d = 1 THEN NamedFuncScalar(<<"p", "t">>, <<"leaf", "s1">>)
             ELSE NamedFuncVector(<<"j", " ", "m">>, <<"leaf", "v1">>)]
  /\ nops = 0
  /\ last = Record("init", "", 1, 1, 1, nf, FALSE)

\* the closure f with every captured copy of the function old replaced by
\* the function new
RECURSIVE Subst(_, _, _)
Subst(f, old, new) ==
  IF f = old THEN new
  ELSE CASE f[1] \in {"empty", "leaf", "const"} -> f
         [] f[1] \in {"un_s", "un_v"} -> <<f[1], f[2], Subst(f[3], old, new)>>
         [] f[1] \in {"ss", "sv", "vs", "vv"} ->
              <<f[1], f[2], Subst(f[3], old, new), Subst(f[4], old, new)>>
         [] OTHER -> <<f[1], Subst(f[2], old, new), Subst(f[3], old, new)>>

\* the lambdas capturing their operands by reference: when slot d is
\* written, every closure that captured one of its functions sees the new
\* one
StoreCapturedByReference(kind, sym, i, j, d, out) ==
  LET Seen(f) ==
        LET f1 == IF IsValid(nf[d].scalar_func_) /\ IsValid(out.scalar_func_)
                  THEN Subst(f, nf[d].scalar_func_, out.scalar_func_) ELSE f
        IN  IF IsValid(nf[d].vector_func_) /\ IsValid(out.vector_func_)
            THEN Subst(f1, nf[d].vector_func_, out.vector_func_) ELSE f1
  IN  /\ nops < MaxOps
      /\ nops' = nops + 1
      /\ nf' = [s \in Slots |->
                  IF s = d THEN out
                  ELSE [nf[s] EXCEPT !.scalar_func_ = Seen(@),
                                     !.vector_func_ = Seen(@)]]
      /\ last' = Record(kind, sym, i, j, d, nf, FALSE)

\* the operation's result is stored in slot d
Store(kind, sym, i, j, d, out) ==
  /\ nops < MaxOps
  /\ nops' = nops + 1
  /\ nf' = [nf EXCEPT ![d] = out]
  /\ last' = Record(kind, sym, i, j, d, nf, FALSE)

\* the result of a call that is handed an argument is stored in slot d, and
\* the argument is kept with the operation
StoreArg(kind, arg, d, out) ==
  /\ nops < MaxOps
  /\ nops' = nops + 1
  /\ nf' = [nf EXCEPT ![d] = out]
  /\ last' = [kind |-> kind, sym |-> "", i |-> d, j |-> d, d |-> d,
               pre |-> nf, err |-> FALSE, arg |-> arg]

\* nf[d] = NamedFunc(name, fn)
ConstructScalar(d) ==
  \E name \in Names, fn \in ScalarLeaves :
    Store("ctor_s", "", d, d, d, NamedFuncScalar(name, fn))

ConstructVector(d) ==
  \E name \in Names, fn \in VectorLeaves :
    Store("ctor_v", "", d, d, d, NamedFuncVector(name, fn))

\* nf[d] = NamedFunc(x)
ConstructConstant(d) ==
  \E x \in Constants :
    Store("ctor_c", "", d, d, d, NamedFuncConstant(x))

\* nf[d].Name(name)
SetName(d) ==
  \E name \in Names :
    StoreArg("name", name, d, Name(nf[d], name))

\* nf[d].Function(fn)
SetFunctionScalar(d) ==
  \E fn \in ScalarLeaves \cup {Empty} :
    StoreArg("function_s", fn, d, FunctionScalar(nf[d], fn))

SetFunctionVector(d) ==
  \E fn \in VectorLeaves \cup {Empty} :
    StoreArg("function_v", fn, d, FunctionVector(nf[d], fn))

\* nf[i] op= nf[j]
DoCompound(i, j) ==
  \E sym \in ArithSyms :
    Store("compound", sym, i, j, i, CompoundAssign(nf[i], nf[j], sym))

\* nf[d] = nf[i] op nf[j]
DoArith(i, j, d) ==
  \E sym \in ArithSyms :
    Store("binary", sym, i, j, d, OperatorArith(nf[i], nf[j], sym))

DoCompare(i, j, d) ==
  \E sym \in CompareSyms :
    Store("binary", sym, i, j, d, OperatorCompare(nf[i], nf[j], sym))

DoAnd(i, j, d) ==
  Store("logical", "&&", i, j, d, OperatorAnd(nf[i], nf[j]))

DoOr(i, j, d) ==
  Store("logical", "||", i, j, d, OperatorOr(nf[i], nf[j]))

\* nf[d] = +nf[i]
DoPlus(i, d) ==
  Store("unary", "+", i, i, d, OperatorPlus(nf[i]))

\* nf[d] = -nf[i], nf[d] = !nf[i]
DoUnary(i, d) ==
  \E sym \in UnarySyms :
    Store("unary", sym, i, i, d, OperatorUnary(nf[i], sym))

\* nf[d] = nf[i][nf[j]]; ERROR throws, and then nothing is stored
DoIndex(i, j, d) ==
  IF IndexError(nf[i], nf[j])
  THEN /\ nops < MaxOps
       /\ nops' = nops + 1
       /\ last' = Record("index", "[]", i, j, d, nf, TRUE)
       /\ UNCHANGED nf
  ELSE Store("index", "[]", i, j, d, OperatorIndex(nf[i], nf[j]))

GetKinds == {"get_s", "get_v"}

\* a const member function called on nf[d] with the Baby b: nothing is
\* stored.  "again" tells a call made a second time from the first, and
\* "before" is what the first call returned.
Called(kind, d, b, bd, res) ==
  /\ nops < MaxOps
  /\ nops' = nops + 1
  /\ UNCHANGED nf
  /\ last' = [kind |-> kind, sym |-> "", i |-> d, j |-> d, d |-> d,
               pre |-> nf, err |-> ~Ok(res), b |-> b, bd |-> bd, res |-> res,
               again |-> FALSE, before |-> res]

\* nf[d].GetScalar(b)
DoGetScalar(d) ==
  \E b \in Babies, bd \in Builds :
    Called("get_s", d, b, bd, GetScalar(nf[d], b, bd))

\* nf[d].GetVector(b)
DoGetVector(d) ==
  \E b \in Babies, bd \in Builds :
    Called("get_v", d, b, bd, GetVector(nf[d], b, bd))

\* what the second call returns if "evaluated" of the vector/scalar "&&"
\* and "||" lambdas were static: it is still true, and sb starts at 0
GetAgainStaticEvaluated(self, kind, b, bd) ==
  LET f == self.vector_func_
      ra == Call(f[2], b, bd)
      rb == Call(f[3], b, bd)
  IN  IF kind = "get_s" THEN GetScalar(self, b, bd)
      ELSE IF f[1] = "and_vs" /\ Ok(ra)
           THEN AndLoop(ra.val, rb, 1, TRUE, PosZero, <<>>, ra.trace)
      ELSE IF f[1] = "or_vs" /\ Ok(ra)
           THEN OrLoop(ra.val, rb, 1, TRUE, PosZero, <<>>, ra.trace)
      ELSE GetVector(self, b, bd)

\* the call made once more: the lambdas declare their variables inside
\* their bodies and capture by value, so it is the call made the first time
GetAgain(self, kind, b, bd) ==
  IF kind = "get_s" THEN GetScalar(self, b, bd) ELSE GetVector(self, b, bd)

\* the last call, made a second time on the same NamedFunc and Baby
DoGetAgain ==
  /\ last.kind \in GetKinds /\ ~last.again
  /\ UNCHANGED <<nf, nops>>
  /\ LET res == GetAgain(nf[last.d], last.kind, last.b, last.bd)
     IN  last' = [last EXCEPT !.pre = nf, !.err = ~Ok(res), !.res = res,
                              !.again = TRUE, !.before = last.res]

Next ==
  \/ \E d \in Slots : ConstructScalar(d)
  \/ \E d \in Slots : ConstructVector(d)
  \/ \E d \in Slots : ConstructConstant(d)
  \/ \E d \in Slots : SetName(d)
  \/ \E d \in Slots : SetFunctionScalar(d)
  \/ \E d \in Slots : SetFunctionVector(d)
  \/ \E i \in Slots, j \in Slots : DoCompound(i, j)
  \/ \E i \in Slots, j \in Slots, d \in Slots : DoArith(i, j, d)
  \/ \E i \in Slots, j \in Slots, d \in Slots : DoCompare(i, j, d)
  \/ \E i \in Slots, j \in Slots, d \in Slots : DoAnd(i, j, d)
  \/ \E i \in Slots, j \in Slots, d \in Slots : DoOr(i, j, d)
  \/ \E i \in Slots, d \in Slots : DoPlus(i, d)
  \/ \E i \in Slots, d \in Slots : DoUnary(i, d)
  \/ \E i \in Slots, j \in Slots, d \in Slots : DoIndex(i, j, d)
  \/ \E d \in Slots : DoGetScalar(d)
  \/ \E d \in Slots : DoGetVector(d)
  \/ DoGetAgain

Spec == Init /\ [][Next]_vars


(***************************************************************************)
(* HavePass on a list of vectors, applied to every list within the bounds. *)
(***************************************************************************)
\* the inner loop with "||" for "&&": one vector passing at ix is enough
RECURSIVE RowPassesAny(_, _, _)
RowPassesAny(vv, ix, iv) ==
  IF iv > Len(vv) THEN FALSE
  ELSE IF ix <= Len(vv[iv]) /\ Truthy(vv[iv][ix]) THEN TRUE
  ELSE RowPassesAny(vv, ix, iv + 1)

\* the inner loop over iv, entered with this_pass true: the value of
\* this_pass when it ends (ix counts from 1 here, so "ix >= size" is
\* ix > Len)
RECURSIVE RowPasses(_, _, _)
RowPasses(vv, ix, iv) ==
  IF iv > Len(vv) THEN TRUE
  ELSE IF ix > Len(vv[iv]) \/ ~Truthy(vv[iv][ix]) THEN FALSE
  ELSE RowPasses(vv, ix, iv + 1)

\* the outer loop over ix, up to the size of vv.at(0)
RECURSIVE HavePassFrom(_, _)
HavePassFrom(vv, ix) ==
  IF ix > Len(vv[1]) THEN FALSE
  ELSE IF RowPasses(vv, ix, 1) THEN TRUE
  ELSE HavePassFrom(vv, ix + 1)

\* HavePass(const std::vector<NamedFunc::VectorType> &)
HavePass(vv) == IF Len(vv) = 0 THEN FALSE ELSE HavePassFrom(vv, 1)

\* the lists HavePass is applied to: at most MaxVectors vectors of at most
\* MaxVectorLen elements each
MaxVectors == 2
MaxVectorLen == 3
Elements == {PosZero, One}
VectorValues == UNION {[1..n -> Elements] : n \in 0..MaxVectorLen}
VectorLists == UNION {[1..n -> VectorValues] : n \in 0..MaxVectors}

InitHavePass ==
  /\ nf = [d \in Slots |->
             IF d = 1 THEN NamedFuncScalar(<<"p", "t">>, <<"leaf", "s1">>)
             ELSE NamedFuncVector(<<"j", " ", "m">>, <<"leaf", "v1">>)]
  /\ nops = 0
  /\ \E vv \in VectorLists : last = [kind |-> "have_pass_arg", vv |-> vv]

\* HavePass(vv)
DoHavePass ==
  /\ last.kind = "have_pass_arg"
  /\ nops' = nops + 1
  /\ last' = [kind |-> "have_pass", vv |-> last.vv, res |-> HavePass(last.vv)]
  /\ UNCHANGED nf

NextHavePass == DoHavePass

SpecHavePass == InitHavePass /\ [][NextHavePass]_vars

\* the operands and the result of the last operation
LastF == last.pre[last.i]
LastG == last.pre[last.j]
LastOut == nf[last.d]


C2_ScalarScalar ==
  (last.kind = "binary" /\ IsScalar(LastF) /\ IsScalar(LastG)) =>
    /\ IsScalar(LastOut) /\ ~IsVector(LastOut)
    /\ \A b \in Babies, bd \in Builds :
         LET ra == GetScalar(LastF, b, bd)
             rb == GetScalar(LastG, b, bd)
             ro == GetScalar(LastOut, b, bd)
         IN  IF Ok(ra) /\ Ok(rb)
             THEN Ok(ro) /\ ro.val = BinaryFunctor(last.sym, ra.val, rb.val)
             ELSE ~Ok(ro)

\* a quotient of two different scalars, of which the left one is composed
C2_Witness ==
  /\ last.kind = "binary" /\ last.sym = "/"
  /\ IsScalar(LastF) /\ IsScalar(LastG) /\ LastF.scalar_func_[1] = "ss"
  /\ \E b \in Babies, bd \in Builds :
       LET ra == GetScalar(LastF, b, bd)
           rb == GetScalar(LastG, b, bd)
           ro == GetScalar(LastOut, b, bd)
       IN  /\ Ok(ro) /\ ro.val = Divides(ra.val, rb.val)
           /\ ro.val # Divides(rb.val, ra.val)

\* C3: for a generic binary operator, vector A of length n and scalar B,
\* A op B is a vector of length n with element i equal to op(A[i], B), and
\* B op A is a vector of length n with element i equal to op(B, A[i]).
C3_Broadcast ==
  /\ (last.kind = "binary" /\ IsVector(LastF) /\ IsScalar(LastG)) =>
       /\ IsVector(LastOut) /\ ~IsScalar(LastOut)
       /\ \A b \in Babies, bd \in Builds :
            LET ra == GetVector(LastF, b, bd)
                rb == GetScalar(LastG, b, bd)
                ro == GetVector(LastOut, b, bd)
            IN  (Ok(ra) /\ Ok(rb)) =>
                  /\ Ok(ro) /\ Len(ro.val) = Len(ra.val)
                  /\ \A k \in 1..Len(ra.val) :
                       ro.val[k] = BinaryFunctor(last.sym, ra.val[k], rb.val)
  /\ (last.kind = "binary" /\ IsScalar(LastF) /\ IsVector(LastG)) =>
       /\ IsVector(LastOut) /\ ~IsScalar(LastOut)
       /\ \A b \in Babies, bd \in Builds :
            LET ra == GetScalar(LastF, b, bd)
                rb == GetVector(LastG, b, bd)
                ro == GetVector(LastOut, b, bd)
            IN  (Ok(ra) /\ Ok(rb)) =>
                  /\ Ok(ro) /\ Len(ro.val) = Len(rb.val)
                  /\ \A k \in 1..Len(rb.val) :
                       ro.val[k] = BinaryFunctor(last.sym, ra.val, rb.val[k])

\* scalar - vector, on a Baby where the difference is not the same both ways
C3_Witness ==
  /\ last.kind = "binary" /\ last.sym = "-"
  /\ IsScalar(LastF) /\ IsVector(LastG)
  /\ \E b \in Babies, bd \in Builds :
       LET ra == GetScalar(LastF, b, bd)
           rb == GetVector(LastG, b, bd)
           ro == GetVector(LastOut, b, bd)
       IN  /\ Ok(ro) /\ Len(ro.val) = 3
           /\ ro.val[1] = Minus(ra.val, rb.val[1])
           /\ ro.val[1] # Minus(rb.val[1], ra.val)

\* C4: for a generic binary operator and vectors A of length n and B of
\* length m, A op B is a vector of length min(n, m) with element i equal to
\* op(A[i], B[i]), and no error is raised when n differs from m.
C4_VectorVector ==
  (last.kind = "binary" /\ IsVector(LastF) /\ IsVector(LastG)) =>
    /\ IsVector(LastOut) /\ ~IsScalar(LastOut)
    /\ \A b \in Babies, bd \in Builds :
         LET ra == GetVector(LastF, b, bd)
             rb == GetVector(LastG, b, bd)
             ro == GetVector(LastOut, b, bd)
             n == Len(ra.val)
             m == Len(rb.val)
         IN  (Ok(ra) /\ Ok(rb)) =>
               /\ Ok(ro)
               /\ Len(ro.val) = (IF n < m THEN n ELSE m)
               /\ \A k \in 1..Len(ro.val) :
                    ro.val[k] = BinaryFunctor(last.sym, ra.val[k], rb.val[k])

\* two vectors of lengths 3 and 2 are divided into a vector of length 2
C4_Witness ==
  /\ last.kind = "binary" /\ last.sym = "/"
  /\ IsVector(LastF) /\ IsVector(LastG)
  /\ \E b \in Babies, bd \in Builds :
       LET ra == GetVector(LastF, b, bd)
           rb == GetVector(LastG, b, bd)
           ro == GetVector(LastOut, b, bd)
       IN  /\ Ok(ro) /\ Len(ra.val) = 3 /\ Len(rb.val) = 2 /\ Len(ro.val) = 2
           /\ ro.val[1] # Divides(rb.val[1], ra.val[1])


\* whether the scalar a decides A && B (a false) or A || B (a true)
Decides(sym, a) == IF sym = "&&" THEN ~Truthy(a) ELSE Truthy(a)

\* C5: for scalar A and vector B, one evaluation of A && B on a Baby where A
\* is false never invokes B's evaluator, and one evaluation of A || B on a
\* Baby where A is true never invokes B's evaluator: the only evaluators
\* invoked are those A invokes.
C5_VectorOperandNotInvoked ==
  (last.kind = "logical" /\ IsScalar(LastF) /\ IsVector(LastG)) =>
    \A b \in Babies, bd \in Builds :
      LET ra == GetScalar(LastF, b, bd)
          ro == GetVector(LastOut, b, bd)
      IN  (Ok(ra) /\ Decides(last.sym, ra.val)) => ro.trace = ra.trace

\* C6: for vector A and scalar B, one evaluation of A && B invokes B's
\* evaluator exactly once, after A's, if an element of A's result is true,
\* and never otherwise (A's result empty included); the one value of B is
\* used for every element.  A || B does the same with "false" for "true".
C6_ScalarOperandInvokedOnce ==
  (last.kind = "logical" /\ IsVector(LastF) /\ IsScalar(LastG)) =>
    \A b \in Babies, bd \in Builds :
      LET ra == GetVector(LastF, b, bd)
          rb == GetScalar(LastG, b, bd)
          ro == GetVector(LastOut, b, bd)
          needed == \E k \in 1..Len(ra.val) : ~Decides(last.sym, ra.val[k])
      IN  IF ~Ok(ra) THEN ro = ra
          ELSE IF ~needed
               THEN /\ Ok(ro) /\ ro.trace = ra.trace
                    /\ ro.val = [k \in 1..Len(ra.val) |-> FromBool(last.sym = "||")]
          ELSE /\ ro.trace = ra.trace \o rb.trace
               /\ Ok(ro) = Ok(rb)
               /\ Ok(rb) =>
                    ro.val = [k \in 1..Len(ra.val) |->
                                FromBool(IF last.sym = "&&"
                                         THEN Truthy(ra.val[k]) /\ Truthy(rb.val)
                                         ELSE Truthy(ra.val[k]) \/ Truthy(rb.val))]

\* A && B on a Baby where two elements of A's result are true and B's
\* evaluator leaves a trace: B is invoked once, after A
C6_Witness ==
  /\ last.kind = "logical" /\ last.sym = "&&"
  /\ IsVector(LastF) /\ IsScalar(LastG)
  /\ \E b \in Babies, bd \in Builds :
       LET ra == GetVector(LastF, b, bd)
           rb == GetScalar(LastG, b, bd)
           ro == GetVector(LastOut, b, bd)
       IN  /\ Ok(ro) /\ Len(rb.trace) > 0
           /\ Cardinality({k \in 1..Len(ra.val) : Truthy(ra.val[k])}) >= 2
           /\ ro.trace = ra.trace \o rb.trace

\* C7: for scalar A and vector B with result vb, A && B is len(vb) zeros
\* when A is false and exactly vb when A is true; A || B is len(vb) ones
\* when A is true and exactly vb when A is false.
C7_ScalarVectorValue ==
  (last.kind = "logical" /\ IsScalar(LastF) /\ IsVector(LastG)) =>
    /\ IsVector(LastOut) /\ ~IsScalar(LastOut)
    /\ \A b \in Babies, bd \in Builds :
         LET ra == GetScalar(LastF, b, bd)
             rb == GetVector(LastG, b, bd)
             ro == GetVector(LastOut, b, bd)
         IN  (Ok(ra) /\ Ok(rb)) =>
               /\ Ok(ro)
               /\ ro.val = IF Decides(last.sym, ra.val)
                           THEN [k \in 1..Len(rb.val) |-> FromBool(last.sym = "||")]
                           ELSE rb.val

\* A && B with A true on a Baby where B's result holds an element that is
\* neither 0 nor 1: the result is B's result as it is
C7_Witness ==
  /\ last.kind = "logical" /\ last.sym = "&&"
  /\ IsScalar(LastF) /\ IsVector(LastG)
  /\ \E b \in Babies, bd \in Builds :
       LET ra == GetScalar(LastF, b, bd)
           rb == GetVector(LastG, b, bd)
           ro == GetVector(LastOut, b, bd)
       IN  /\ Ok(ro) /\ Truthy(ra.val) /\ ro.val = rb.val
           /\ \E k \in 1..Len(rb.val) : rb.val[k] \notin {PosZero, One}


\* C8: the name of an operator's result is built from the operands' names:
\* "(" + A.name + ")" + s + "(" + B.name + ")" for every binary, comparison,
\* logical and compound-assignment operator with symbol s, and
\* s + "(" + A.name + ")" for the unary -, ! and +.
C8_StructuralName ==
  /\ last.kind \in {"binary", "logical", "compound"} =>
       LastOut.name = <<"(">> \o LastF.name \o <<")">> \o SymChars(last.sym)
                        \o <<"(">> \o LastG.name \o <<")">>
  /\ last.kind = "unary" =>
       LastOut.name = SymChars(last.sym) \o <<"(">> \o LastF.name \o <<")">>

\* the double negation of the leaf pt is named "-(-(pt))"
C8_Witness ==
  /\ last.kind = "unary"
  /\ LastF.name = <<"-", "(", "p", "t", ")">>
  /\ LastOut.name = <<"-", "(", "-", "(", "p", "t", ")", ")">>

\* a NamedFunc called by its valid function
Evaluate(f, b, bd) ==
  IF IsScalar(f) THEN GetScalar(f, b, bd) ELSE GetVector(f, b, bd)

\* the table of the binary operators: the result of op on the results a of
\* the left and c of the right operand, by the operands' shapes
TableValue(sym, aScalar, a, cScalar, c) ==
  IF aScalar /\ cScalar THEN BinaryFunctor(sym, a, c)
  ELSE IF aScalar THEN [k \in 1..Len(c) |-> BinaryFunctor(sym, a, c[k])]
  ELSE IF cScalar THEN [k \in 1..Len(a) |-> BinaryFunctor(sym, a[k], c)]
  ELSE [k \in 1..(IF Len(a) < Len(c) THEN Len(a) ELSE Len(c)) |->
          BinaryFunctor(sym, a[k], c[k])]

\* C9: X op= Y (op one of + - * / %) replaces X's name and both of X's
\* functions: the name becomes "(" + oldX.name + ")op(" + Y.name + ")", the
\* shape and the result on every Baby are those of the binary table with
\* the old X on the left and Y on the right, every NamedFunc but X (Y, if it
\* is another object) is unchanged, and X equals the value of oldX op Y.
C9_CompoundAssignment ==
  last.kind = "compound" =>
    /\ LastOut.name = <<"(">> \o LastF.name \o <<")">> \o SymChars(last.sym)
                        \o <<"(">> \o LastG.name \o <<")">>
    /\ IsScalar(LastOut) = (IsScalar(LastF) /\ IsScalar(LastG))
    /\ IsVector(LastOut) = ~IsScalar(LastOut)
    /\ \A b \in Babies, bd \in Builds :
         LET ra == Evaluate(LastF, b, bd)
             rb == Evaluate(LastG, b, bd)
             ro == Evaluate(LastOut, b, bd)
         IN  IF Ok(ra) /\ Ok(rb)
             THEN /\ Ok(ro)
                  /\ ro.val = TableValue(last.sym, IsScalar(LastF), ra.val,
                                         IsScalar(LastG), rb.val)
             ELSE ~Ok(ro)
    /\ \A s \in Slots \ {last.i} : nf[s] = last.pre[s]
    /\ LastOut = OperatorArith(LastF, LastG, last.sym)

\* a vector X, itself composed, is divided in place by a scalar Y
C9_Witness ==
  /\ last.kind = "compound" /\ last.sym = "/" /\ last.i # last.j
  /\ IsVector(LastF) /\ LastF.vector_func_[1] # "leaf" /\ IsScalar(LastG)
  /\ \E b \in Babies, bd \in Builds :
       LET ro == Evaluate(LastOut, b, bd)
       IN  Ok(ro) /\ Len(ro.val) = 2 /\ ro.val[2] \notin {PosZero, One}

\* C10: constructing X[I] fails, produces no value and leaves X and I
\* unchanged whenever X is scalar or I is vector; when X is vector and I is
\* scalar it succeeds and the result is scalar.
C10_IndexShapes ==
  last.kind = "index" =>
    /\ (IsValid(LastF.scalar_func_) \/ IsValid(LastG.vector_func_)) =>
         last.err /\ nf = last.pre
    /\ (IsValid(LastF.vector_func_) /\ IsValid(LastG.scalar_func_)) =>
         /\ ~last.err
         /\ IsScalar(LastOut) /\ ~IsVector(LastOut)
         /\ \A s \in Slots \ {last.d} : nf[s] = last.pre[s]

\* a vector is indexed with a vector: the second guard throws
C10_Witness ==
  /\ last.kind = "index" /\ last.err
  /\ IsVector(LastF) /\ IsVector(LastG) /\ last.i # last.j
  /\ nf = last.pre


\* C11: for vector V and scalar I, constructing V[I] never fails whatever
\* the index values are; one evaluation of V[I] on a Baby returns element
\* I(b) of V(b) when 0 <= I(b) < len(V(b)) and throws out_of_range
\* otherwise; a call that throws changes no NamedFunc.
C11_IndexEvaluation ==
  /\ (last.kind = "index" /\ IsVector(LastF) /\ IsScalar(LastG)) =>
       /\ ~last.err
       /\ \A b \in Babies, bd \in Builds :
            LET rv == GetVector(LastF, b, bd)
                ri == GetScalar(LastG, b, bd)
                ro == GetScalar(LastOut, b, bd)
            IN  (Ok(rv) /\ Ok(ri)) =>
                  IF /\ ~IsNaN(ri.val) /\ ~IsInf(ri.val)
                     /\ ~Less(ri.val, PosZero)
                     /\ Less(ri.val, Dbl(Len(rv.val)))
                  THEN /\ Ok(ro)
                       /\ ro.val = rv.val[Trunc(ri.val[1], Den(ri.val)) + 1]
                  ELSE ro.exc = "out_of_range"
  /\ (last.kind = "get_s" /\ last.err) => nf = last.pre


\* C12: Function(f) with a valid scalar function makes the NamedFunc scalar
\* with f as its scalar function and no vector function; with a valid vector
\* function it makes it vector with no scalar function; with an empty
\* function of either kind it leaves name and both functions as they were.
\* The name is unchanged in every case.
C12_FunctionSetters ==
  /\ last.kind = "function_s" =>
       /\ LastOut.name = LastF.name
       /\ IF IsValid(last.arg)
          THEN /\ IsScalar(LastOut) /\ ~IsVector(LastOut)
               /\ LastOut.scalar_func_ = last.arg
               /\ LastOut.vector_func_ = Empty
          ELSE LastOut = LastF
  /\ last.kind = "function_v" =>
       /\ LastOut.name = LastF.name
       /\ IF IsValid(last.arg)
          THEN /\ IsVector(LastOut) /\ ~IsScalar(LastOut)
               /\ LastOut.vector_func_ = last.arg
               /\ LastOut.scalar_func_ = Empty
          ELSE LastOut = LastF

\* an empty scalar function is set on a vector NamedFunc that an operator
\* composed: it stays the vector it was
C12_Witness ==
  /\ last.kind = "function_s" /\ ~IsValid(last.arg)
  /\ IsVector(LastF) /\ LastF.vector_func_[1] # "leaf"
  /\ LastOut = LastF


\* the text t without its spaces, character by character
RECURSIVE StripSpaces(_)
StripSpaces(t) ==
  IF t = <<>> THEN <<>>
  ELSE IF Head(t) = " " THEN StripSpaces(Tail(t))
  ELSE <<Head(t)>> \o StripSpaces(Tail(t))

\* C13: Name(name) sets the name to the given text with every space
\* removed and leaves both functions, IsScalar, IsVector and the result of
\* a later call on every Baby as they were.
C13_Rename ==
  last.kind = "name" =>
    /\ LastOut.name = StripSpaces(last.arg)
    /\ \A k \in 1..Len(LastOut.name) : LastOut.name[k] # " "
    /\ LastOut.scalar_func_ = LastF.scalar_func_
    /\ LastOut.vector_func_ = LastF.vector_func_
    /\ IsScalar(LastOut) = IsScalar(LastF)
    /\ IsVector(LastOut) = IsVector(LastF)
    /\ \A b \in Babies, bd \in Builds :
         /\ GetScalar(LastOut, b, bd) = GetScalar(LastF, b, bd)
         /\ GetVector(LastOut, b, bd) = GetVector(LastF, b, bd)

\* a composed vector NamedFunc is renamed "n j": its name becomes "nj"
C13_Witness ==
  /\ last.kind = "name" /\ last.arg = <<"n", " ", "j">>
  /\ LastOut.name = <<"n", "j">> /\ LastF.name # LastOut.name
  /\ IsVector(LastOut) /\ LastOut.vector_func_[1] = "vs"
  /\ \E b \in Babies, bd \in Builds : Len(GetVector(LastOut, b, bd).val) = 3


\* C14: GetScalar on a NamedFunc with no scalar function throws instead of
\* returning a number, and GetVector on one with no vector function throws
\* likewise; the call that throws leaves every NamedFunc as it was; on a
\* NamedFunc of the matching shape the call returns what its function
\* returns on the Baby.
C14_GetWithoutFunction ==
  /\ last.kind = "get_s" =>
       /\ nf = last.pre
       /\ IF IsScalar(LastF)
          THEN last.res = Call(LastF.scalar_func_, last.b, last.bd)
          ELSE last.err /\ last.res.exc = "bad_function_call"
  /\ last.kind = "get_v" =>
       /\ nf = last.pre
       /\ IF IsVector(LastF)
          THEN last.res = Call(LastF.vector_func_, last.b, last.bd)
          ELSE last.err /\ last.res.exc = "bad_function_call"

\* GetScalar is called on a vector NamedFunc whose vector function returns
\* two elements on the Baby: the call throws and nothing changes
C14_Witness ==
  /\ last.kind = "get_s" /\ IsVector(LastF) /\ ~IsScalar(LastF)
  /\ LastF.vector_func_[1] # "leaf"
  /\ Len(Call(LastF.vector_func_, last.b, last.bd).val) = 2
  /\ last.err /\ nf = last.pre


\* C15: HavePass on a list of vectors returns true exactly when the list is
\* not empty and there is an index within the bounds of every vector of the
\* list at which every vector's element is true; it returns false for the
\* empty list and whenever a vector of the list is empty.
C15_HavePass ==
  last.kind = "have_pass" =>
    LET vv == last.vv
        indices == UNION {1..Len(vv[v]) : v \in 1..Len(vv)}
    IN  /\ last.res = (/\ Len(vv) > 0
                        /\ \E i \in indices : \A v \in 1..Len(vv) :
                             i <= Len(vv[v]) /\ Truthy(vv[v][i]))
        /\ Len(vv) = 0 => ~last.res
        /\ (\E v \in 1..Len(vv) : Len(vv[v]) = 0) => ~last.res

\* HavePass on <<1,0,1>> and <<1,1,0>> is true, and neither vector passes
\* at every index
C15_Witness ==
  /\ last.kind = "have_pass" /\ last.res
  /\ last.vv = <<(<<One, PosZero, One>>), (<<One, One, PosZero>>)>>


C17_BothInvoked ==
  (last.kind = "logical" /\ IsScalar(LastF) /\ IsScalar(LastG)) =>
    \A b \in Babies, bd \in Builds :
      LET ra == GetScalar(LastF, b, bd)
          rb == GetScalar(LastG, b, bd)
          ro == GetScalar(LastOut, b, bd)
      IN  (Ok(ra) /\ Ok(rb)) =>
            /\ Ok(ro) /\ ro.trace = ra.trace \o rb.trace
            /\ ro.val = FromBool(IF last.sym = "&&"
                                  THEN Truthy(ra.val) /\ Truthy(rb.val)
                                  ELSE Truthy(ra.val) \/ Truthy(rb.val))

\* C17: for scalar A and B, one evaluation of A && B or A || B invokes A's
\* evaluator first and returns the boolean combination of the two results
\* as 0 or 1; B's evaluator is invoked, once and after A's, exactly when A's
\* value does not decide the result (A true for &&, A false for ||), and
\* when A decides, B is not invoked and a failure of B is not raised.
C17_ShortCircuit ==
  (last.kind = "logical" /\ IsScalar(LastF) /\ IsScalar(LastG)) =>
    /\ IsScalar(LastOut) /\ ~IsVector(LastOut)
    /\ \A b \in Babies, bd \in Builds :
         LET ra == GetScalar(LastF, b, bd)
             rb == GetScalar(LastG, b, bd)
             ro == GetScalar(LastOut, b, bd)
         IN  IF ~Ok(ra) THEN ro = ra
             ELSE IF Decides(last.sym, ra.val)
                  THEN /\ Ok(ro) /\ ro.trace = ra.trace
                       /\ ro.val = FromBool(last.sym = "||")
             ELSE /\ ro.trace = ra.trace \o rb.trace
                  /\ Ok(ro) = Ok(rb)
                  /\ Ok(rb) =>
                       ro.val = FromBool(IF last.sym = "&&"
                                         THEN Truthy(ra.val) /\ Truthy(rb.val)
                                         ELSE Truthy(ra.val) \/ Truthy(rb.val))

\* A && B with two different scalars on a Baby where A is false and B's
\* evaluator would read the Baby: only A's evaluator is invoked
C17_Witness ==
  /\ last.kind = "logical" /\ last.sym = "&&"
  /\ IsScalar(LastF) /\ IsScalar(LastG)
  /\ LastF.scalar_func_ # LastG.scalar_func_
  /\ \E b \in Babies, bd \in Builds :
       LET ra == GetScalar(LastF, b, bd)
           rb == GetScalar(LastG, b, bd)
           ro == GetScalar(LastOut, b, bd)
       IN  /\ Ok(ra) /\ ~Truthy(ra.val) /\ Ok(rb) /\ Truthy(rb.val)
           /\ Len(rb.trace) > 0
           /\ Ok(ro) /\ ro.trace = ra.trace /\ ro.val = PosZero


\* the operators that build a new NamedFunc, and the operations that modify
\* the NamedFunc they are called on
BuildKinds == {"binary", "logical", "unary", "index"}
ModifyKinds == {"name", "function_s", "function_v", "compound"}

\* C18: building Z from X and Y by a unary, binary, logical or indexing
\* operator leaves X and Y unchanged (every NamedFunc but the one Z is
\* assigned to), and a later Name, Function or compound assignment on X or
\* Y leaves the name, the shape and the result on every Baby of every other
\* NamedFunc, Z included, unchanged: Z holds copies of the operands'
\* functions.
C18_CapturedByValue ==
  /\ last.kind \in BuildKinds =>
       \A s \in Slots \ {last.d} : nf[s] = last.pre[s]
  /\ last.kind \in ModifyKinds =>
       \A s \in Slots \ {last.d} :
         /\ nf[s].name = last.pre[s].name
         /\ IsScalar(nf[s]) = IsScalar(last.pre[s])
         /\ IsVector(nf[s]) = IsVector(last.pre[s])
         /\ nf[s].scalar_func_ = last.pre[s].scalar_func_
         /\ nf[s].vector_func_ = last.pre[s].vector_func_
         /\ \A b \in Babies, bd \in Builds :
              Evaluate(nf[s], b, bd) = Evaluate(last.pre[s], b, bd)

\* Z was built from X and holds X's function; X is then added to in place
\* and evaluates differently, and Z still holds the function X had
C18_Witness ==
  /\ last.kind = "compound"
  /\ \E z \in Slots \ {last.d} :
       /\ IsScalar(nf[z]) /\ nf[z].scalar_func_[1] = "un_s"
       /\ nf[z].scalar_func_[3] = LastF.scalar_func_
       /\ nf[z] = last.pre[z]
       /\ \E b \in Babies, bd \in Builds :
            Evaluate(LastOut, b, bd) # Evaluate(LastF, b, bd)


\* C19: in every reachable state no name contains a space: the
\* constructors taking a name and Name(name) strip the spaces, the constant
\* constructor writes the digits of its value, and every unary, binary,
\* comparison, logical, indexing and compound-assignment operator writes a
\* name made of the operands' names, parentheses, brackets and the symbol.
C19_NoSpaceInName ==
  \A d \in Slots : \A k \in 1..Len(nf[d].name) : nf[d].name[k] # " "

\* the NamedFunc constructed with the name "j m" has the constant 1 added
\* in place: the name, written without CleanName, is "(jm)+(1)"
C19_Witness ==
  /\ last.kind = "compound" /\ last.sym = "+"
  /\ LastF.name = <<"j", "m">> /\ LastG.name = <<"1">>
  /\ LastG.scalar_func_[1] = "const"
  /\ LastOut.name = <<"(", "j", "m", ")", "+", "(", "1", ")">>


\* what the unary operator sym makes of the double x: the negative of x
\* for "-", 1 for a zero and 0 for every other double for "!", x for "+"
UnaryValue(sym, x) ==
  CASE sym = "-" -> Multiplies(Dbl(-1), x)
    [] sym = "!" -> IF EqualTo(x, PosZero) THEN One ELSE PosZero
    [] sym = "+" -> x

\* C20: each of -X, !X and +X has the shape of X; for scalar X its result
\* on a Baby is op(X(b)); for vector X its result has the length of X(b)
\* and element i is op(X(b)[i]), in the same order; op is negation for "-",
\* logical not for "!" and the identity for "+", which changes the name
\* only.
C20_UnaryOperators ==
  last.kind = "unary" =>
    /\ IsScalar(LastOut) = IsScalar(LastF)
    /\ IsVector(LastOut) = IsVector(LastF)
    /\ last.sym = "+" =>
         /\ LastOut.scalar_func_ = LastF.scalar_func_
         /\ LastOut.vector_func_ = LastF.vector_func_
    /\ \A b \in Babies, bd \in Builds :
         LET ra == Evaluate(LastF, b, bd)
             ro == Evaluate(LastOut, b, bd)
         IN  IF ~Ok(ra) THEN ~Ok(ro)
             ELSE /\ Ok(ro)
                  /\ IF IsScalar(LastF)
                     THEN ro.val = UnaryValue(last.sym, ra.val)
                     ELSE /\ Len(ro.val) = Len(ra.val)
                          /\ \A k \in 1..Len(ra.val) :
                               ro.val[k] = UnaryValue(last.sym, ra.val[k])

\* the negative of a composed vector X on a Baby where X(b) has three
\* elements, a zero and two different non-zero ones among them
C20_Witness ==
  /\ last.kind = "unary" /\ last.sym = "-"
  /\ IsVector(LastF) /\ LastF.vector_func_[1] # "leaf"
  /\ \E b \in Babies, bd \in Builds :
       LET ra == Evaluate(LastF, b, bd)
           ro == Evaluate(LastOut, b, bd)
       IN  /\ Ok(ro) /\ Len(ro.val) = 3
           /\ Cardinality({ra.val[k] : k \in 1..3}) = 3
           /\ \E k \in 1..3 : IsZero(ra.val[k]) /\ ro.val[k] = NegZero
           /\ \E k \in 1..3 : ro.val[k] # ra.val[k] /\ ~IsZero(ra.val[k])


\* the eager logical and/or of the truth values of the doubles x and y
EagerLogic(sym, x, y) ==
  IF sym = "&&" THEN Truthy(x) /\ Truthy(y) ELSE Truthy(x) \/ Truthy(y)

\* C21: A && B and A || B have the shape and the length of the generic
\* binary table (scalar/scalar: scalar; scalar/vector: len(B);
\* vector/scalar: len(A); vector/vector: the smaller length), and the
\* scalar result or each element i is true exactly when the logical and/or
\* of the truth values of A's and B's values at i is, a scalar operand
\* standing for each of its elements.
C21_AgreesWithEagerLogic ==
  last.kind = "logical" =>
    /\ IsScalar(LastOut) = (IsScalar(LastF) /\ IsScalar(LastG))
    /\ IsVector(LastOut) = ~IsScalar(LastOut)
    /\ \A b \in Babies, bd \in Builds :
         LET ra == Evaluate(LastF, b, bd)
             rb == Evaluate(LastG, b, bd)
             ro == Evaluate(LastOut, b, bd)
             n == IF IsScalar(LastF)
                  THEN (IF IsScalar(LastG) THEN 0 ELSE Len(rb.val))
                  ELSE IF IsScalar(LastG) THEN Len(ra.val)
                  ELSE IF Len(ra.val) < Len(rb.val) THEN Len(ra.val)
                  ELSE Len(rb.val)
             A(k) == IF IsScalar(LastF) THEN ra.val ELSE ra.val[k]
             B(k) == IF IsScalar(LastG) THEN rb.val ELSE rb.val[k]
         IN  (Ok(ra) /\ Ok(rb)) =>
               /\ Ok(ro)
               /\ IF IsScalar(LastOut)
                  THEN Truthy(ro.val) = EagerLogic(last.sym, ra.val, rb.val)
                  ELSE /\ Len(ro.val) = n
                       /\ \A k \in 1..n :
                            Truthy(ro.val[k]) = EagerLogic(last.sym, A(k), B(k))

\* A || B with vector A and scalar B on a Baby where A's first element is
\* false, a later one is true and B is true: every element of the result
\* is true, the first by B's value
C21_Witness ==
  /\ last.kind = "logical" /\ last.sym = "||"
  /\ IsVector(LastF) /\ IsScalar(LastG)
  /\ \E b \in Babies, bd \in Builds :
       LET ra == Evaluate(LastF, b, bd)
           rb == Evaluate(LastG, b, bd)
           ro == Evaluate(LastOut, b, bd)
       IN  /\ Ok(ro) /\ Len(ro.val) = 2 /\ Truthy(rb.val)
           /\ ~Truthy(ra.val[1]) /\ Truthy(ra.val[2])
           /\ Truthy(ro.val[1]) /\ Truthy(ro.val[2])

====
